---- MODULE Spec2Model ----
(***************************************************************************)
(* Model of the qr2s command of src/modules/qr.rs: the orchestrator        *)
(* run_qr_scanner (driven by qr2s through Runtime::block_on), the axum     *)
(* serve task it spawns, the per-connection handler tasks for GET / and    *)
(* POST /result, and the oneshot channel guarded by                        *)
(* Arc<Mutex<Option<Sender>>> that carries the scanned text back.          *)
(***************************************************************************)
EXTENDS Naturals, Sequences, FiniteSets, TLC

\* Bound on the number of HTTP requests the serve task accepts in one run.
MaxRequests == 2

\* The 'data' strings a client may submit.
Payloads == {"a", "b"}

\* Option::None of the source (Option<Sender>, no result yet, no outcome yet).
None == "None"

VARIABLES
    pc,         \* position of qr2s / run_qr_scanner
    outcome,    \* what run_qr_scanner returned: NoOutcome, Ok(v) or Err(msg)
    result,     \* the local `result` of line 213 (None until rx.await resolves)
    listener,   \* the loopback socket: "none", "std", "tokio" or "closed"
    urlPrinted, \* the eprintln of line 193 has run
    browser,    \* open_browser: "none" (not called), "launched" or "failed"
    server,     \* the spawned serve task: "none", "running", "cancelled" or "exited"
    abortCalls, \* number of server_handle.abort() calls
    slot,       \* the Mutex<Option<Sender>>: TRUE is Some(sender)
    chan,       \* the oneshot cell: "empty", a payload, "taken" or "closed"
    reqs,       \* the requests accepted so far, in order of acceptance
    order,      \* indices of reqs in the order the POST handler body ran
    sig,        \* None, or the pc at which an interrupt ended the process
    waker       \* the receiver's waker: "none", "registered" or "woken"

vars == <<pc, outcome, result, listener, urlPrinted, browser, server,
          abortCalls, slot, chan, reqs, order, sig, waker>>

orchVars == <<pc, outcome, result, listener, urlPrinted, browser, server, abortCalls>>

----------------------------------------------------------------------------
\* Requests and the JSON bodies of POST /result

\* A body: json says whether serde_json parses it; field is the shape of its
\* "data" member ("string", "number", "absent"); data is the string carried.
Bodies ==
    {[json |-> TRUE, field |-> "string", data |-> p] : p \in Payloads}
    \cup {[json |-> TRUE, field |-> "number", data |-> "1"],
          [json |-> TRUE, field |-> "absent", data |-> ""],
          [json |-> FALSE, field |-> "absent", data |-> ""]}

NoBody == [json |-> FALSE, field |-> "absent", data |-> ""]

\* payload.get("data").and_then(|v| v.as_str())
GetDataStr(body) ==
    IF body.json /\ body.field = "string" THEN body.data ELSE None

NewRequest(method, body) ==
    [method |-> method, body |-> body, phase |-> "accepted", status |-> 0, resp |-> ""]

\* The runtime (and with it every spawned task) is alive.
RuntimeAlive == pc \notin {"runtime", "done", "killed"}

\* Every task of the runtime is dropped: requests not yet answered never are.
DropTasks(rs) ==
    [i \in DOMAIN rs |->
        IF rs[i].phase = "responded" THEN rs[i] ELSE [rs[i] EXCEPT !.phase = "dropped"]]

\* Result<Vec<String>, String> as returned by run_qr_scanner, and the state
\* before it has returned.
NoOutcome == [st |-> "none", val |-> <<>>, err |-> ""]
Ok(v) == [st |-> "ok", val |-> v, err |-> ""]
Err(msg) == [st |-> "err", val |-> <<>>, err |-> msg]

----------------------------------------------------------------------------
Init ==
    /\ pc = "runtime"
    /\ outcome = NoOutcome
    /\ result = None
    /\ listener = "none"
    /\ urlPrinted = FALSE
    /\ browser = "none"
    /\ server = "none"
    /\ abortCalls = 0
    /\ slot = FALSE
    /\ chan = "none"
    /\ reqs = <<>>
    /\ order = <<>>
    /\ sig = None
    /\ waker = "none"


\* An early `?` return of run_qr_scanner: its locals are dropped (the std
\* listener if still owned, rx, the Arc holding the sender slot).
ReturnErr(msg) ==
    /\ pc' = "returned"
    /\ outcome' = Err(msg)
    /\ listener' = IF listener = "std" THEN "closed" ELSE listener
    /\ slot' = FALSE
    /\ chan' = "closed"
    /\ UNCHANGED <<result, urlPrinted, browser, server, abortCalls, reqs, order, sig, waker>>

\* qr2s: Runtime::new(), then block_on(run_qr_scanner()), whose first
\* statements create the oneshot channel and the shared sender slot.
NewRuntime ==
    /\ pc = "runtime"
    /\ \E ok \in BOOLEAN :
        IF ok
        THEN /\ pc' = "bind"
             /\ slot' = TRUE
             /\ chan' = "empty"
             /\ UNCHANGED <<outcome, result, listener, urlPrinted, browser, server,
                            abortCalls, reqs, order, sig, waker>>
        ELSE /\ pc' = "done"
             /\ outcome' = Err("Failed to create runtime")
             /\ UNCHANGED <<result, listener, urlPrinted, browser, server, abortCalls,
                            slot, chan, reqs, order, sig, waker>>

\* Mutant of Bind: the browser is launched before the bind result is looked at.
Bind_BrowserFirst ==
    /\ pc = "bind"
    /\ \E ok \in BOOLEAN :
        IF ok
        THEN /\ pc' = "set_nonblocking"
             /\ listener' = "std"
             /\ urlPrinted' = TRUE
             /\ browser' = "launched"
             /\ UNCHANGED <<outcome, result, server, abortCalls, slot, chan, reqs, order, sig, waker>>
        ELSE /\ pc' = "returned"
             /\ outcome' = Err("Failed to bind to port")
             /\ browser' = "launched"
             /\ slot' = FALSE
             /\ chan' = "closed"
             /\ UNCHANGED <<result, listener, urlPrinted, server, abortCalls, reqs, order, sig, waker>>

\* TcpListener::bind("127.0.0.1:0")
Bind ==
    /\ pc = "bind"
    /\ \E ok \in BOOLEAN :
        IF ok
        THEN /\ pc' = "local_addr"
             /\ listener' = "std"
             /\ UNCHANGED <<outcome, result, urlPrinted, browser, server, abortCalls,
                            slot, chan, reqs, order, sig, waker>>
        ELSE ReturnErr("Failed to bind to port")

\* listener.local_addr(), then the URL is formatted and printed
LocalAddr ==
    /\ pc = "local_addr"
    /\ \E ok \in BOOLEAN :
        IF ok
        THEN /\ pc' = "open_browser"
             /\ urlPrinted' = TRUE
             /\ UNCHANGED <<outcome, result, listener, browser, server, abortCalls,
                            slot, chan, reqs, order, sig, waker>>
        ELSE ReturnErr("Failed to get local address")

\* Mutant of OpenBrowser: a failed launch is returned as an error.
OpenBrowser_Abort ==
    /\ pc = "open_browser"
    /\ \E ok \in BOOLEAN :
        IF ok
        THEN /\ browser' = "launched"
             /\ pc' = "set_nonblocking"
             /\ UNCHANGED <<outcome, result, listener, urlPrinted, server, abortCalls,
                            slot, chan, reqs, order, sig, waker>>
        ELSE /\ browser' = "failed"
             /\ pc' = "returned"
             /\ outcome' = Err("Failed to open browser")
             /\ listener' = "closed"
             /\ slot' = FALSE
             /\ chan' = "closed"
             /\ UNCHANGED <<result, urlPrinted, server, abortCalls, reqs, order, sig, waker>>

\* open_browser(&url): a failure is printed and otherwise ignored
OpenBrowser ==
    /\ pc = "open_browser"
    /\ \E ok \in BOOLEAN : browser' = IF ok THEN "launched" ELSE "failed"
    /\ pc' = "set_nonblocking"
    /\ UNCHANGED <<outcome, result, listener, urlPrinted, server, abortCalls,
                   slot, chan, reqs, order, sig, waker>>

\* listener.set_nonblocking(true)
SetNonblocking ==
    /\ pc = "set_nonblocking"
    /\ \E ok \in BOOLEAN :
        IF ok
        THEN /\ pc' = "from_std"
             /\ UNCHANGED <<outcome, result, listener, urlPrinted, browser, server,
                            abortCalls, slot, chan, reqs, order, sig, waker>>
        ELSE ReturnErr("Failed to set non-blocking")

\* tokio::net::TcpListener::from_std(listener)
FromStd ==
    /\ pc = "from_std"
    /\ \E ok \in BOOLEAN :
        IF ok
        THEN /\ pc' = "spawn"
             /\ listener' = "tokio"
             /\ UNCHANGED <<outcome, result, urlPrinted, browser, server, abortCalls,
                            slot, chan, reqs, order, sig, waker>>
        ELSE ReturnErr("Failed to convert listener")

\* Mutant of SpawnServer: the serve task is spawned before open_browser runs.
SpawnServer_BeforeBrowser ==
    /\ pc = "open_browser"
    /\ server = "none"
    /\ server' = "running"
    /\ listener' = "tokio"
    /\ UNCHANGED <<pc, outcome, result, urlPrinted, browser, abortCalls,
                   slot, chan, reqs, order, sig, waker>>

\* axum::serve(listener, app) moved into tokio::spawn
SpawnServer ==
    /\ pc = "spawn"
    /\ pc' = "await"
    /\ server' = "running"
    /\ UNCHANGED <<outcome, result, listener, urlPrinted, browser, abortCalls,
                   slot, chan, reqs, order, sig, waker>>

\* Mutant of AwaitResult: the wait gives up (a timeout) while the cell is empty.
AwaitResult_Timeout ==
    /\ pc = "await"
    /\ IF chan \in Payloads
       THEN /\ result' = chan
            /\ chan' = "taken"
            /\ pc' = "abort"
            /\ UNCHANGED <<outcome, listener, urlPrinted, browser, server, abortCalls,
                           slot, reqs, order, sig, waker>>
       ELSE ReturnErr("Failed to receive QR code result")

\* rx.await, a poll that finds the cell empty: the receiver registers its
\* waker and the orchestrator is suspended until a send wakes it.
AwaitPending ==
    /\ pc = "await"
    /\ chan = "empty"
    /\ waker = "none"
    /\ waker' = "registered"
    /\ UNCHANGED <<orchVars, slot, chan, reqs, order, sig>>

\* Mutant of AwaitResult: the cell is looked at only after a wake, so a value
\* sent before the first poll is never seen.
AwaitResult_OnlyWhenWoken ==
    /\ pc = "await"
    /\ chan \notin {"empty"}
    /\ waker = "woken"
    /\ IF chan \in Payloads
       THEN /\ result' = chan
            /\ chan' = "taken"
            /\ pc' = "abort"
            /\ UNCHANGED <<outcome, listener, urlPrinted, browser, server, abortCalls,
                           slot, reqs, order, sig, waker>>
       ELSE ReturnErr("Failed to receive QR code result")

\* rx.await, a poll (the first one, or one after a wake) that finds the cell
\* filled or closed: resolves to the value sent, or to RecvError once the
\* sender has been dropped unsent.
AwaitResult ==
    /\ pc = "await"
    /\ chan \notin {"empty"}
    /\ waker \in {"none", "woken"}
    /\ IF chan \in Payloads
       THEN /\ result' = chan
            /\ chan' = "taken"
            /\ pc' = "abort"
            /\ UNCHANGED <<outcome, listener, urlPrinted, browser, server, abortCalls,
                           slot, reqs, order, sig, waker>>
       ELSE ReturnErr("Failed to receive QR code result")

\* Mutant of AbortServer: the abort call is left out.
AbortServer_Forgotten ==
    /\ pc = "abort"
    /\ pc' = "return_ok"
    /\ UNCHANGED <<outcome, result, listener, urlPrinted, browser, server, abortCalls,
                   slot, chan, reqs, order, sig, waker>>

\* server_handle.abort(): requests cancellation of the serve task
AbortServer ==
    /\ pc = "abort"
    /\ abortCalls' = abortCalls + 1
    /\ pc' = "return_ok"
    /\ UNCHANGED <<outcome, result, listener, urlPrinted, browser, server,
                   slot, chan, reqs, order, sig, waker>>

\* Mutant of ReturnOk: an empty list is returned, as s2qr does.
ReturnOk_Empty ==
    /\ pc = "return_ok"
    /\ outcome' = Ok(<<>>)
    /\ pc' = "returned"
    /\ slot' = FALSE
    /\ UNCHANGED <<result, listener, urlPrinted, browser, server, abortCalls,
                   chan, reqs, order, sig, waker>>

\* Ok(vec![result]); the locals of run_qr_scanner are dropped
ReturnOk ==
    /\ pc = "return_ok"
    /\ outcome' = Ok(<<result>>)
    /\ pc' = "returned"
    /\ slot' = FALSE
    /\ UNCHANGED <<result, listener, urlPrinted, browser, server, abortCalls,
                   chan, reqs, order, sig, waker>>

\* Mutant of Qr2sReturn: the runtime is leaked, the serve task keeps its listener.
Qr2sReturn_Leak ==
    /\ pc = "returned"
    /\ pc' = "done"
    /\ UNCHANGED <<outcome, result, listener, urlPrinted, browser, server, abortCalls,
                   slot, chan, reqs, order, sig, waker>>

\* qr2s returns what block_on returned; the runtime is dropped, and with it
\* the serve task (its listener) and every connection task.
Qr2sReturn ==
    /\ pc = "returned"
    /\ pc' = "done"
    /\ server' = IF server = "running" THEN "cancelled" ELSE server
    /\ listener' = IF listener = "tokio" THEN "closed" ELSE listener
    /\ reqs' = DropTasks(reqs)
    /\ UNCHANGED <<outcome, result, urlPrinted, browser, abortCalls, slot, chan, order, sig, waker>>

\* A send (or the drop of the sender) wakes a receiver that is suspended.
Woken == IF chan = "empty" /\ waker = "registered" THEN "woken" ELSE waker

----------------------------------------------------------------------------
\* The serve task and the connection tasks

\* The aborted serve task is dropped at its next yield: the accept loop ends
\* and the listener it owns is closed.
ServerCancelled ==
    /\ RuntimeAlive
    /\ server = "running"
    /\ abortCalls > 0
    /\ server' = "cancelled"
    /\ listener' = "closed"
    /\ UNCHANGED <<pc, outcome, result, urlPrinted, browser, abortCalls,
                   slot, chan, reqs, order, sig, waker>>

\* Mutant of ServerExits: the sender lives in the serve task alone (tx moved,
\* not cloned), so it is dropped unsent with the task.
ServerExits_DropsSender ==
    /\ RuntimeAlive
    /\ server = "running"
    /\ abortCalls = 0
    /\ server' = "exited"
    /\ listener' = "closed"
    /\ slot' = FALSE
    /\ chan' = IF slot /\ chan = "empty" THEN "closed" ELSE chan
    /\ waker' = IF slot THEN Woken ELSE waker
    /\ UNCHANGED <<pc, outcome, result, urlPrinted, browser, abortCalls,
                   reqs, order, sig>>

\* The serve task ends on its own (its future panics or completes) without
\* having been aborted: the accept loop and its listener are gone, with
\* tx_clone; the tx of run_qr_scanner still holds the sender slot.
ServerExits ==
    /\ RuntimeAlive
    /\ server = "running"
    /\ abortCalls = 0
    /\ server' = "exited"
    /\ listener' = "closed"
    /\ UNCHANGED <<pc, outcome, result, urlPrinted, browser, abortCalls,
                   slot, chan, reqs, order, sig, waker>>

\* The accept loop takes a connection carrying one request.
Accept ==
    /\ RuntimeAlive
    /\ server = "running"
    /\ Len(reqs) < MaxRequests
    /\ \E r \in {NewRequest("GET", NoBody)} \cup {NewRequest("POST", b) : b \in Bodies} :
        reqs' = Append(reqs, r)
    /\ UNCHANGED <<orchVars, slot, chan, order, sig, waker>>

Respond(i, status, resp) ==
    reqs' = [reqs EXCEPT ![i] = [@ EXCEPT !.phase = "responded", !.status = status, !.resp = resp]]

\* Mutant of GetRoot: the document is moved out by the first GET (the handler
\* is not cloned per request); later ones fail.
GetRoot_Once(i) ==
    /\ RuntimeAlive
    /\ reqs[i].phase = "accepted"
    /\ reqs[i].method = "GET"
    /\ IF \E j \in DOMAIN reqs : reqs[j].method = "GET" /\ reqs[j].phase = "responded"
       THEN Respond(i, 500, "")
       ELSE Respond(i, 200, "HTML")
    /\ UNCHANGED <<orchVars, slot, chan, order, sig, waker>>

\* GET /: Html(html_clone)
GetRoot(i) ==
    /\ RuntimeAlive
    /\ reqs[i].phase = "accepted"
    /\ reqs[i].method = "GET"
    /\ Respond(i, 200, "HTML")
    /\ UNCHANGED <<orchVars, slot, chan, order, sig, waker>>

\* POST /result whose body the Json extractor rejects: the handler closure
\* is not called and the rejection is the response.
PostRejected(i) ==
    /\ RuntimeAlive
    /\ reqs[i].phase = "accepted"
    /\ reqs[i].method = "POST"
    /\ ~reqs[i].body.json
    /\ Respond(i, 400, "")
    /\ UNCHANGED <<orchVars, slot, chan, order, sig, waker>>

\* Mutant of TakeAndSend: the sender is not taken out of the slot, every
\* valid submission stores its data.
TakeAndSend_Overwrite(data) ==
    IF slot
    THEN /\ chan' = IF chan \in Payloads \cup {"empty"} THEN data ELSE chan
         /\ waker' = Woken
         /\ UNCHANGED slot
    ELSE UNCHANGED <<slot, chan, waker>>

\* Mutant of TakeAndSend: the sender is used through the slot and left in it.
TakeAndSend_NoTake(data) ==
    IF slot
    THEN /\ chan' = IF chan = "empty" THEN data ELSE chan
         /\ waker' = Woken
         /\ UNCHANGED slot
    ELSE UNCHANGED <<slot, chan, waker>>

\* tx_clone.lock().unwrap().take() and sender.send(data), under the lock
TakeAndSend(data) ==
    IF slot
    THEN /\ slot' = FALSE
         /\ chan' = IF chan = "empty" THEN data ELSE chan
         /\ waker' = Woken
    ELSE UNCHANGED <<slot, chan, waker>>

\* Mutant of PostResult: the sender is taken before 'data' is looked at, and
\* dropped unsent when 'data' is missing.
PostResult_TakeFirst(i) ==
    /\ RuntimeAlive
    /\ reqs[i].phase = "accepted"
    /\ reqs[i].method = "POST"
    /\ reqs[i].body.json
    /\ IF slot
       THEN /\ slot' = FALSE
            /\ chan' = IF chan # "empty" THEN chan
                       ELSE IF GetDataStr(reqs[i].body) # None
                            THEN GetDataStr(reqs[i].body) ELSE "closed"
            /\ waker' = Woken
       ELSE UNCHANGED <<slot, chan, waker>>
    /\ reqs' = [reqs EXCEPT ![i].phase = "handled"]
    /\ order' = Append(order, i)
    /\ UNCHANGED <<orchVars, sig>>

\* Mutant of PostResult: the handler goes on to its "OK" without publishing.
PostResult_Deferred(i) ==
    /\ RuntimeAlive
    /\ reqs[i].phase = "accepted"
    /\ reqs[i].method = "POST"
    /\ reqs[i].body.json
    /\ reqs' = [reqs EXCEPT ![i].phase = "handled"]
    /\ order' = Append(order, i)
    /\ UNCHANGED <<orchVars, slot, chan, sig, waker>>

\* POST /result, the handler body up to (not including) the "OK" it returns
PostResult(i) ==
    /\ RuntimeAlive
    /\ reqs[i].phase = "accepted"
    /\ reqs[i].method = "POST"
    /\ reqs[i].body.json
    /\ IF GetDataStr(reqs[i].body) # None
       THEN TakeAndSend(GetDataStr(reqs[i].body))
       ELSE UNCHANGED <<slot, chan, waker>>
    /\ reqs' = [reqs EXCEPT ![i].phase = "handled"]
    /\ order' = Append(order, i)
    /\ UNCHANGED <<orchVars, sig>>

\* Mutant of PostRespond: a body without a string 'data' is answered 400.
PostRespond_400(i) ==
    /\ RuntimeAlive
    /\ reqs[i].phase = "handled"
    /\ IF GetDataStr(reqs[i].body) # None THEN Respond(i, 200, "OK") ELSE Respond(i, 400, "")
    /\ UNCHANGED <<orchVars, slot, chan, order, sig, waker>>

\* Mutant of PostResult's answer: a valid submission that did not win the
\* sender is answered 409.
PostRespond_LateConflict(i) ==
    /\ RuntimeAlive
    /\ reqs[i].phase = "handled"
    /\ LET valid(j) == GetDataStr(reqs[j].body) # None
           winners == SelectSeq(order, valid)
       IN IF valid(i) /\ winners[1] # i
          THEN Respond(i, 409, "")
          ELSE Respond(i, 200, "OK")
    /\ UNCHANGED <<orchVars, slot, chan, order, sig, waker>>

\* POST /result: the handler's "OK" is written as the response
PostRespond(i) ==
    /\ RuntimeAlive
    /\ reqs[i].phase = "handled"
    /\ Respond(i, 200, "OK")
    /\ UNCHANGED <<orchVars, slot, chan, order, sig, waker>>

\* Mutant of Interrupt: the wait is cancelled, the server aborted and a
\* Cancelled error returned.
Interrupt_Cancelled ==
    /\ pc = "await"
    /\ sig = None
    /\ sig' = pc
    /\ pc' = "returned"
    /\ abortCalls' = abortCalls + 1
    /\ outcome' = Err("Cancelled")
    /\ slot' = FALSE
    /\ chan' = "closed"
    /\ UNCHANGED <<result, listener, urlPrinted, browser, server, reqs, order, waker>>

\* An interrupt: qr2s installs no handler and selects on no signal, so the
\* process ends where it stands; the operating system closes its sockets.
Interrupt ==
    /\ pc \notin {"done", "killed"}
    /\ sig' = pc
    /\ pc' = "killed"
    /\ server' = IF server = "running" THEN "cancelled" ELSE server
    /\ listener' = IF listener \in {"std", "tokio"} THEN "closed" ELSE listener
    /\ reqs' = DropTasks(reqs)
    /\ UNCHANGED <<outcome, result, urlPrinted, browser, abortCalls, slot, chan, order, waker>>

\* The future block_on drives: every step of qr2s and run_qr_scanner.
Orchestrator ==
    \/ NewRuntime
    \/ Bind
    \/ LocalAddr
    \/ OpenBrowser
    \/ SetNonblocking
    \/ FromStd
    \/ SpawnServer
    \/ AwaitPending
    \/ AwaitResult
    \/ AbortServer
    \/ ReturnOk
    \/ Qr2sReturn

Next ==
    \/ NewRuntime
    \/ Bind
    \/ LocalAddr
    \/ OpenBrowser
    \/ SetNonblocking
    \/ FromStd
    \/ SpawnServer
    \/ AwaitPending
    \/ AwaitResult
    \/ AbortServer
    \/ ReturnOk
    \/ Qr2sReturn
    \/ ServerCancelled
    \/ ServerExits
    \/ Accept
    \/ \E i \in DOMAIN reqs : GetRoot(i)
    \/ \E i \in DOMAIN reqs : PostRejected(i)
    \/ \E i \in DOMAIN reqs : PostResult(i)
    \/ \E i \in DOMAIN reqs : PostRespond(i)
    \/ Interrupt

Spec == Init /\ [][Next]_vars

\* block_on polls the orchestrator's future whenever it can make progress
\* (a sent oneshot wakes the receiver); an interrupt may or may not come.
FairSpec == Spec /\ WF_vars(Orchestrator)

----------------------------------------------------------------------------
\* Vocabulary of the properties

\* The requests whose handler body ran with a string 'data', in the order
\* the handler body ran: the valid submissions.
IsValid(i) == GetDataStr(reqs[i].body) # None
HandledValid == SelectSeq(order, IsValid)
FirstValidData == reqs[HandledValid[1]].body.data

\* A POST whose body is a JSON document without a string 'data'.
IsMalformed(i) == reqs[i].method = "POST" /\ reqs[i].body.json /\ ~IsValid(i)

ReturnedOk == outcome.st = "ok"
ReturnedErr == outcome.st = "err"
Spawned == server # "none"

----------------------------------------------------------------------------
\* C1: whenever two or more submissions (valid or malformed, in any order
\* and interleaving) are handled, the value in the channel, the value the
\* wait resolved to and the value run_qr_scanner returns are the 'data' of
\* the first valid submission; no later submission changes it.
C1_FirstValidWins ==
    /\ chan \in Payloads => (HandledValid # <<>> /\ chan = FirstValidData)
    /\ result # None => (HandledValid # <<>> /\ result = FirstValidData)
    /\ ReturnedOk => (HandledValid # <<>> /\ outcome.val = <<FirstValidData>>)

\* Two valid submissions with different data were handled and the run
\* returned the first one's.
C1_Witness ==
    /\ ReturnedOk
    /\ Len(HandledValid) = 2
    /\ reqs[HandledValid[2]].body.data # FirstValidData
    /\ outcome.val = <<FirstValidData>>

\* C2 as stated: in no state has open_browser been invoked while the serve
\* task has not been started.
C2_ServerBeforeBrowser == browser # "none" => Spawned

\* C2 amended: the listener is bound and the URL printed before
\* open_browser is invoked, and the serve task is spawned only after
\* open_browser has returned.
C2_BoundBeforeBrowser ==
    /\ browser # "none" => (listener # "none" /\ urlPrinted)
    /\ Spawned => browser # "none"

\* The browser has been launched, the socket is bound, no serve task yet.
C2_Witness == browser = "launched" /\ listener = "std" /\ ~Spawned /\ pc = "set_nonblocking"

\* C3 as stated: a JSON body without a string 'data' is answered 400, a
\* body with a string 'data' is answered 200 "OK".
C3_MalformedGets400 ==
    \A i \in DOMAIN reqs :
        (reqs[i].method = "POST" /\ reqs[i].body.json /\ reqs[i].phase = "responded")
            => IF IsValid(i)
               THEN reqs[i].status = 200 /\ reqs[i].resp = "OK"
               ELSE reqs[i].status = 400

\* C3 amended: every POST /result whose body is a JSON document is answered
\* 200 "OK", with or without a string 'data'; a 400 only ever answers a body
\* the Json extractor rejected.
C3_JsonAlwaysOk ==
    \A i \in DOMAIN reqs :
        (reqs[i].method = "POST" /\ reqs[i].phase = "responded")
            => /\ reqs[i].body.json => (reqs[i].status = 200 /\ reqs[i].resp = "OK")
               /\ reqs[i].status = 400 => ~reqs[i].body.json

\* A body without 'data' or with a non-string 'data' has been answered 200 "OK".
C3_Witness ==
    \E i \in DOMAIN reqs :
        /\ IsMalformed(i)
        /\ reqs[i].phase = "responded"
        /\ reqs[i].status = 200
        /\ reqs[i].resp = "OK"

\* C4 as stated: however a run that spawned the serve task ends (payload
\* returned, error returned, or ended by an interrupt), abort() has been
\* called, and at most once.
C4_AbortOnEveryExit ==
    /\ abortCalls <= 1
    /\ (Spawned /\ pc \in {"returned", "done", "killed"}) => abortCalls = 1

\* C4 amended: abort() is called at most once; once run_qr_scanner has
\* returned after spawning the serve task, abort() has been called exactly
\* once; a run ended by an interrupt during the wait has not called it.
C4_AbortBeforeReturn ==
    /\ abortCalls <= 1
    /\ (Spawned /\ pc \in {"return_ok", "returned", "done"}) => abortCalls = 1
    /\ (pc = "killed" /\ sig = "await") => abortCalls = 0

\* run_qr_scanner has returned a payload after one abort of the serve task.
C4_Witness == Spawned /\ pc = "returned" /\ ReturnedOk /\ abortCalls = 1

\* An interrupt arrived while the orchestrator was suspended in rx.await
\* and no valid submission had been handled.
InterruptedWaiting == sig = "await" /\ HandledValid = <<>>

\* C5 as stated: after such an interrupt the server has been stopped and a
\* Cancelled error returned.
C5_CancelledReturned ==
    InterruptedWaiting => (abortCalls = 1 /\ outcome = Err("Cancelled"))

\* C5 amended: such an interrupt ends the process where it stands:
\* run_qr_scanner returns nothing (no Cancelled error), abort() is not
\* called, and the socket is closed by the process ending.
C5_InterruptEndsProcess ==
    /\ outcome # Err("Cancelled")
    /\ InterruptedWaiting =>
        /\ pc = "killed"
        /\ outcome = NoOutcome
        /\ abortCalls = 0
        /\ server \in {"cancelled", "exited"}
        /\ listener = "closed"

\* The interrupt came during the wait, after a GET / or a malformed submission.
C5_Witness == InterruptedWaiting /\ reqs # <<>>

\* C6: after exactly one valid submission with payload p has been handled,
\* run_qr_scanner eventually returns Ok with the one-element list <<p>>
\* (unless an interrupt ends the process first); an Ok result always has
\* exactly one element.
C6_OneValidReturned ==
    /\ [](ReturnedOk => Len(outcome.val) = 1)
    /\ \A p \in Payloads :
        (Len(HandledValid) = 1 /\ FirstValidData = p)
            ~> (pc = "killed" \/ outcome = Ok(<<p>>))

\* One valid submission was handled and the run ended with its payload.
C6_Witness ==
    /\ pc = "done"
    /\ Len(HandledValid) = 1
    /\ outcome = Ok(<<FirstValidData>>)

\* The handler body of request i runs in this step.
HandlerRuns(i) == reqs[i].phase = "accepted" /\ reqs'[i].phase = "handled"

\* C7: handling a malformed submission changes neither the sender slot nor
\* the channel, nor the orchestrator's position and outcome, nor the server;
\* a valid submission handled while the slot is still filled is delivered,
\* and a run in which malformed submissions came first returns the valid one.
C7_MalformedIgnored ==
    /\ [][\A i \in DOMAIN reqs :
            (IsMalformed(i) /\ HandlerRuns(i))
                => UNCHANGED <<slot, chan, pc, outcome, result, server, abortCalls, listener>>]_vars
    /\ [][\A i \in DOMAIN reqs :
            (IsValid(i) /\ HandlerRuns(i) /\ slot /\ chan = "empty")
                => (chan' = reqs[i].body.data /\ ~slot')]_vars
    /\ []((ReturnedOk /\ order # <<>> /\ IsMalformed(order[1]))
            => (HandledValid # <<>> /\ outcome.val = <<FirstValidData>>))

\* A malformed submission was handled first, then a valid one, whose data
\* the run returned.
C7_Witness ==
    /\ Len(order) = 2
    /\ IsMalformed(order[1])
    /\ IsValid(order[2])
    /\ outcome = Ok(<<reqs[order[2]].body.data>>)

\* C8: a run whose bind failed has returned that error at once: no URL
\* printed, open_browser never invoked, no serve task, no socket, no request.
C8_BindFailure ==
    outcome = Err("Failed to bind to port")
        => /\ pc \in {"returned", "done", "killed"}
           /\ browser = "none"
           /\ ~urlPrinted
           /\ ~Spawned
           /\ listener = "none"
           /\ reqs = <<>>

\* The run ended with the bind error.
C8_Witness == pc = "done" /\ outcome = Err("Failed to bind to port") /\ browser = "none"

C10_WaitsWithoutValid ==
    /\ (Spawned /\ pc \in {"abort", "return_ok", "returned", "done"}) => HandledValid # <<>>
    /\ (pc = "await" /\ HandledValid = <<>>) => (chan = "empty" /\ ~ENABLED AwaitResult)

\* Still waiting after a GET / and a malformed submission were both answered.
C10_Witness ==
    /\ pc = "await"
    /\ \E i \in DOMAIN reqs : reqs[i].method = "GET" /\ reqs[i].phase = "responded"
    /\ \E i \in DOMAIN reqs : IsMalformed(i) /\ reqs[i].phase = "responded"

\* C11: a failed open_browser does not end the run: the step after it is
\* the listener conversion, as after a successful launch, and no error is
\* returned for it; the URL has been printed before open_browser is invoked,
\* whether or not the launch succeeds.
C11_LaunchFailureIgnored ==
    /\ [](browser # "none" => urlPrinted)
    /\ [][(pc = "open_browser" /\ pc' \notin {"open_browser", "killed"})
            => /\ urlPrinted
               /\ pc' = "set_nonblocking"
               /\ browser' \in {"launched", "failed"}
               /\ outcome' = NoOutcome
               /\ UNCHANGED <<listener, slot, chan>>]_vars
    /\ []((ReturnedErr /\ browser = "failed")
            => outcome.err \in {"Failed to set non-blocking", "Failed to convert listener"})

\* The launch failed, the URL was printed, the server runs and the
\* orchestrator is suspended in its wait.
C11_Witness ==
    /\ browser = "failed"
    /\ urlPrinted
    /\ server = "running"
    /\ pc = "await"
    /\ waker = "registered"

\* C12 as stated: every error result is a bind failure, a listener-start
\* failure or a cancellation.
C12_OnlyThreeFailures ==
    ReturnedErr => outcome.err \in {"Failed to bind to port",
                                    "Failed to get local address",
                                    "Failed to set non-blocking",
                                    "Failed to convert listener",
                                    "Cancelled"}

\* C12 amended: every error result is a failure to create the runtime, a
\* bind failure or a listener-start failure (local address, non-blocking
\* mode, conversion), each returned before the serve task is spawned; a
\* cancellation is never an error result.
C12_ErrorOutcomes ==
    /\ ReturnedErr => /\ outcome.err \in {"Failed to create runtime",
                                          "Failed to bind to port",
                                          "Failed to get local address",
                                          "Failed to set non-blocking",
                                          "Failed to convert listener"}
                      /\ ~Spawned
    /\ sig # None => outcome.st # "err" \/ sig = "returned"

\* The run ended with the runtime-creation error.
C12_Witness == pc = "done" /\ outcome = Err("Failed to create runtime")

\* The GET / handler answers request i in this step.
GetAnswered(i) ==
    reqs[i].method = "GET" /\ reqs[i].phase = "accepted" /\ reqs'[i].phase = "responded"

\* C13: every answered GET / got status 200 and the scanner document,
\* whatever requests preceded it, and answering a GET / leaves the sender
\* slot, the channel and the orchestrator as they were.
C13_GetRootConstant ==
    /\ [](\A i \in DOMAIN reqs :
            (reqs[i].method = "GET" /\ reqs[i].phase = "responded")
                => (reqs[i].status = 200 /\ reqs[i].resp = "HTML"))
    /\ [][\A i \in DOMAIN reqs :
            GetAnswered(i) => UNCHANGED <<slot, chan, waker, order, orchVars>>]_vars

\* Two GET / were answered, both with the document.
C13_Witness ==
    /\ Len(reqs) = 2
    /\ \A i \in DOMAIN reqs :
        reqs[i].method = "GET" /\ reqs[i].phase = "responded" /\ reqs[i].resp = "HTML"

\* C14: a valid submission handled when the sender is already gone changes
\* neither the slot, the channel nor the orchestrator, is answered 200 "OK"
\* like the first one, and the run still returns the first one's data.
C14_LateSubmissionDiscarded ==
    /\ [][\A i \in DOMAIN reqs :
            (IsValid(i) /\ HandlerRuns(i) /\ ~slot)
                => UNCHANGED <<slot, chan, waker, orchVars>>]_vars
    /\ [](\A i \in DOMAIN reqs :
            (IsValid(i) /\ reqs[i].phase = "responded")
                => (reqs[i].status = 200 /\ reqs[i].resp = "OK"))
    /\ []((ReturnedOk /\ Len(HandledValid) > 1) => outcome.val = <<FirstValidData>>)

\* A second valid submission was handled and answered 200 "OK"; the run
\* returned the first one's data.
C14_Witness ==
    /\ Len(HandledValid) = 2
    /\ reqs[HandledValid[2]].phase = "responded"
    /\ reqs[HandledValid[2]].status = 200
    /\ outcome = Ok(<<FirstValidData>>)

\* C15: with valid submissions racing, the slot goes from filled to empty
\* at the first handler that reaches it and never refills; the channel is
\* written once, in that same step, with that handler's data.
C15_TakeOnce ==
    /\ [][slot' => (slot \/ pc = "runtime")]_vars
    /\ [](HandledValid # <<>> => ~slot)
    /\ [][(chan' \in Payloads /\ chan' # chan)
            => /\ chan = "empty"
               /\ slot /\ ~slot'
               /\ \E i \in DOMAIN reqs :
                    IsValid(i) /\ HandlerRuns(i) /\ chan' = reqs[i].body.data]_vars
    /\ [][(chan \in Payloads) => (chan' \in {chan, "taken"})]_vars

\* Two valid submissions with different data were accepted; the one
\* accepted second reached the slot first and its data is in the channel,
\* the other has not run yet.
C15_Witness ==
    /\ Len(reqs) = 2
    /\ IsValid(1) /\ IsValid(2)
    /\ reqs[1].body.data # reqs[2].body.data
    /\ reqs[1].phase = "accepted"
    /\ order = <<2>>
    /\ chan = reqs[2].body.data
    /\ ~slot

\* C16: a value sent before the orchestrator's first poll of rx (no waker
\* registered yet) is seen by that poll: the wait can resolve at once, and
\* the orchestrator gets that value (unless an interrupt ends the process).
C16_EarlySubmissionKept ==
    /\ []((pc = "await" /\ chan \in Payloads) => ENABLED AwaitResult)
    /\ \A p \in Payloads :
        (pc = "await" /\ waker = "none" /\ chan = p)
            ~> (pc = "killed" \/ result = p)

\* The wait resolved on its first poll: no waker was ever registered.
C16_Witness == pc = "abort" /\ waker = "none" /\ result \in Payloads

\* C17: the sender is never dropped unsent while run_qr_scanner runs past
\* the spawn, so the receive error is never returned; if the serve task
\* ends on its own with no valid submission handled, the orchestrator stays
\* in its wait with the channel empty and returns nothing.
C17_NoReceiveError ==
    /\ outcome # Err("Failed to receive QR code result")
    /\ (Spawned /\ pc \in {"await", "abort", "return_ok"}) => chan # "closed"
    /\ (Spawned /\ HandledValid = <<>> /\ pc # "killed")
        => (pc = "await" /\ slot /\ chan = "empty" /\ outcome = NoOutcome
            /\ ~ENABLED AwaitResult)

\* The serve task has ended on its own, nothing valid was submitted, and
\* the orchestrator is suspended in its wait.
C17_Witness ==
    /\ server = "exited"
    /\ HandledValid = <<>>
    /\ pc = "await"
    /\ waker = "registered"

\* C18: once the first valid submission has been answered, its data has
\* been published: it is in the channel, or the orchestrator has taken it.
C18_PublishedBeforeOk ==
    \A i \in DOMAIN reqs :
        (HandledValid # <<>> /\ HandledValid[1] = i /\ reqs[i].phase = "responded")
            => /\ reqs[i].resp = "OK"
               /\ chan \in {reqs[i].body.data, "taken"}
               /\ chan = "taken" => result = reqs[i].body.data

\* The first valid submission was answered while its data was still in the
\* channel, not yet taken by the orchestrator.
C18_Witness ==
    /\ HandledValid # <<>>
    /\ reqs[HandledValid[1]].phase = "responded"
    /\ chan = FirstValidData
    /\ pc = "await"

\* The converse of C18 fails: the data was published and returned, and the
\* submission that carried it was never answered.
C18_PublishedNeverAnswered ==
    /\ pc = "done"
    /\ ReturnedOk
    /\ reqs[HandledValid[1]].phase = "dropped"

====
